---- MODULE Spec2Model ----
(***************************************************************************)
(* Model of src/utils/calendar/cell.ts: the derived view-model ("cell") of *)
(* one calendar event in a day column (createDayCell) or in a week/month   *)
(* row (createWeekCell).                                                   *)
(*                                                                         *)
(* Time is counted in ticks, MS_PER_HOUR ticks to the hour.  Pixel values  *)
(* are exact rationals, held as integers in units of 1/PX pixel, so that   *)
(* both a tenth of a pixel and one tick's worth of pixels are whole        *)
(* numbers of units (floating-point error is not modelled).                *)
(*                                                                         *)
(* A nullable date is a sequence: <<>> is null, <<t>> is the date at       *)
(* time t.  A ref is a record with a "value" field.                        *)
(***************************************************************************)
EXTENDS Integers, Sequences, FiniteSets, TLC

VARIABLES kind, event, ctx, cell

vars == <<kind, event, ctx, cell>>

(***************************************************************************)
(* Scales and bounds.                                                      *)
(***************************************************************************)

\* Ticks per hour (the real constant is in milliseconds).
MS_PER_HOUR == 3

\* Units per pixel.
PX == 10 * MS_PER_HOUR

\* A day cell's event starts and ends on a whole hour of the day's morning
\* (from HoursBefore hours before the day's start to its hour EarlyHours)
\* or of its night (from LateHours hours before the day's 24th hour to
\* HoursAfter hours after it), or on one of the day's first FineTicks ticks.
HoursBefore == 1

EarlyHours == 5

LateHours == 2

HoursAfter == 2

FineTicks == 2

\* A week row holds 1..MaxDays day cells.
MaxDays == 7

PixelsPerHourValues == {10, 16}

FillValues == {"solid", "light"}

(***************************************************************************)
(* Collaborators that cell.ts imports.                                     *)
(***************************************************************************)

\* CalendarDay.range of the d-th day (d = 0 is the first): from its first
\* tick to its last, both inclusive.
DayLength == 24 * MS_PER_HOUR

CalendarDay(d) ==
    [range |-> [start |-> d * DayLength, end |-> (d + 1) * DayLength - 1]]

\* helpers.roundTenth: Math.round(n * 10) / 10, n and the result in units.
\* Math.round rounds a half towards +infinity.
roundTenth(n) ==
    ((2 * n + MS_PER_HOUR) \div (2 * MS_PER_HOUR)) * MS_PER_HOUR

\* DateRange.intersectsRange: a null bound is unbounded.
intersectsRange(r, other) ==
    IF r.start # <<>> /\ other.end # <<>> /\ r.start[1] > other.end[1]
    THEN FALSE
    ELSE IF r.end # <<>> /\ other.start # <<>> /\ r.end[1] < other.start[1]
    THEN FALSE
    ELSE TRUE

\* Event.startDateLabel / Event.endDateLabel: strings the event derives
\* from its range.
startDateLabel(ev) ==
    IF ev.range.start = <<>> THEN "" ELSE ToString(ev.range.start[1])

endDateLabel(ev) ==
    IF ev.range.end = <<>> THEN "" ELSE ToString(ev.range.end[1])

Max(a, b) == IF a >= b THEN a ELSE b

Min(a, b) == IF a <= b THEN a ELSE b

\* JavaScript's ToBoolean of an object reference: every object is truthy,
\* whatever its fields hold.
ToBoolean(obj) == TRUE

(***************************************************************************)
(* createCell                                                              *)
(***************************************************************************)

is2xs(size) == size \in {"2xs"}

\* Mutant: isXs true of 'xs' alone.
isXsOnly(size) == size \in {"xs"}

isXs(size) == size \in {"2xs", "xs"}

isSm(size) == size \in {"2xs", "xs", "sm"}

isMd(size) == size \in {"2xs", "xs", "sm", "md"}

\* Mutant: the start label alone at '2xs' only.
dateLabelOnly2xs(ev, size) ==
    IF is2xs(size)
    THEN startDateLabel(ev)
    ELSE startDateLabel(ev) \o " - " \o endDateLabel(ev)

dateLabel(ev, size) ==
    IF isXs(size)
    THEN startDateLabel(ev)
    ELSE startDateLabel(ev) \o " - " \o endDateLabel(ev)

\* Mutant: the monthly test before the daily test.
resizableHorizontalMonthlyFirst(ev, c) ==
    IF ~ev.resizable THEN FALSE
    ELSE IF c.isMonthly.value THEN TRUE
    ELSE IF c.isDaily.value THEN FALSE
    ELSE IF ev.isWeekly THEN TRUE
    ELSE FALSE

resizableHorizontal(ev, c) ==
    IF ~ev.resizable THEN FALSE
    ELSE IF c.isDaily.value THEN FALSE
    ELSE IF c.isMonthly.value THEN TRUE
    ELSE IF ev.isWeekly THEN TRUE
    ELSE FALSE

resizableVertical(ev, c) ==
    IF ~ev.resizable THEN FALSE
    ELSE IF c.isMonthly.value THEN FALSE
    ELSE IF ev.isWeekly THEN FALSE
    ELSE TRUE

createCell(ev, size, c) ==
    [isWeekly |-> ev.isWeekly,
     dateLabel |-> dateLabel(ev, size),
     resizable |-> ev.resizable,
     resizableHorizontal |-> resizableHorizontal(ev, c),
     resizableVertical |-> resizableVertical(ev, c),
     is2xs |-> is2xs(size),
     isXs |-> isXs(size),
     isSm |-> isSm(size),
     isMd |-> isMd(size)]

(***************************************************************************)
(* createDayCell                                                           *)
(***************************************************************************)

position(ev, c) ==
    LET dayStartTime == c.day.range.start
        yHoursTimesPph == (ev.range.start[1] - dayStartTime) * c.pixelsPerHour.value * 10
    IN  Max(roundTenth(yHoursTimesPph), 0)

\* Mutant: the height not cut at the day's bottom.
heightUnbounded(ev, c) ==
    LET heightHoursTimesPph ==
            (ev.range.end[1] - ev.range.start[1]) * c.pixelsPerHour.value * 10
    IN  Max(heightHoursTimesPph, 0)

height(ev, c) ==
    LET heightHoursTimesPph ==
            (ev.range.end[1] - ev.range.start[1]) * c.pixelsPerHour.value * 10
        fullHeight == 24 * c.pixelsPerHour.value * PX
    IN  Max(Min(heightHoursTimesPph, fullHeight - position(ev, c)), 0)

\* Mutant: the first threshold exclusive.
daySizeExclusive(ev, c) ==
    IF height(ev, c) < 16 * PX THEN "2xs"
    ELSE IF height(ev, c) <= 30 * PX THEN "xs"
    ELSE IF height(ev, c) <= 48 * PX THEN "sm"
    ELSE "md"

daySize(ev, c) ==
    IF height(ev, c) <= 16 * PX THEN "2xs"
    ELSE IF height(ev, c) <= 30 * PX THEN "xs"
    ELSE IF height(ev, c) <= 48 * PX THEN "sm"
    ELSE "md"

\* A length is the pair of its number (in units) and the "px" suffix.
dayStyle(ev, c) ==
    [top |-> <<position(ev, c), "px">>, height |-> <<height(ev, c), "px">>]

dayFill(ev) == ev.fill

createDayCell(ev, c) ==
    createCell(ev, daySize(ev, c), c) @@
    [size |-> daySize(ev, c), style |-> dayStyle(ev, c), fill |-> dayFill(ev)]

(***************************************************************************)
(* createWeekCell                                                          *)
(***************************************************************************)

\* Mutant: the week's range ends with its first day.
weekRangeFirstDay(c) ==
    [start |-> <<c.days[1].range.start>>, end |-> <<c.days[1].range.end>>]

weekRange(c) ==
    [start |-> <<c.days[1].range.start>>,
     end |-> <<c.days[Len(c.days)].range.end>>]

\* The ref the week cell creates; nothing in cell.ts assigns it again.
weekSize == "2xs"

\* Mutant: a day does not contain a start on its own first instant.
RECURSIVE styleLoopStrictStart(_, _, _, _, _)
styleLoopStrictStart(i, gridColumnStart, gridColumnEnd, ev, c) ==
    IF i >= Len(c.days)
    THEN [gridColumnStart |-> gridColumnStart, gridColumnEnd |-> gridColumnEnd]
    ELSE LET day == c.days[i + 1]
             start == ev.range.start
             end == ev.range.end
             s == IF start # <<>>
                     /\ day.range.start < start[1] /\ day.range.end >= start[1]
                  THEN i + 1
                  ELSE gridColumnStart
             e == IF end # <<>>
                     /\ day.range.start <= end[1] /\ day.range.end >= end[1]
                  THEN i + 2
                  ELSE gridColumnEnd
         IN  styleLoopStrictStart(i + 1, s, e, ev, c)

\* Mutant: the end column is the end's day, not one past it.
RECURSIVE styleLoopEndAtDay(_, _, _, _, _)
styleLoopEndAtDay(i, gridColumnStart, gridColumnEnd, ev, c) ==
    IF i >= Len(c.days)
    THEN [gridColumnStart |-> gridColumnStart, gridColumnEnd |-> gridColumnEnd]
    ELSE LET day == c.days[i + 1]
             start == ev.range.start
             end == ev.range.end
             s == IF start # <<>>
                     /\ day.range.start <= start[1] /\ day.range.end >= start[1]
                  THEN i + 1
                  ELSE gridColumnStart
             e == IF end # <<>>
                     /\ day.range.start <= end[1] /\ day.range.end >= end[1]
                  THEN i + 1
                  ELSE gridColumnEnd
         IN  styleLoopEndAtDay(i + 1, s, e, ev, c)

\* The loop body for the i-th day (0-based, as in the source) and the rest
\* of the loop; the loop has no break.
RECURSIVE styleLoop(_, _, _, _, _)
styleLoop(i, gridColumnStart, gridColumnEnd, ev, c) ==
    IF i >= Len(c.days)
    THEN [gridColumnStart |-> gridColumnStart, gridColumnEnd |-> gridColumnEnd]
    ELSE LET day == c.days[i + 1]
             start == ev.range.start
             end == ev.range.end
             s == IF start # <<>>
                     /\ day.range.start <= start[1] /\ day.range.end >= start[1]
                  THEN i + 1
                  ELSE gridColumnStart
             e == IF end # <<>>
                     /\ day.range.start <= end[1] /\ day.range.end >= end[1]
                  THEN i + 2
                  ELSE gridColumnEnd
         IN  styleLoop(i + 1, s, e, ev, c)

\* The empty style '' is the empty function <<>>.
weekStyle(ev, c) ==
    IF ~intersectsRange(weekRange(c), ev.range)
    THEN <<>>
    ELSE styleLoop(0, 1, Len(c.days) + 1, ev, c)

\* The source tests ctx.isMonthly, the ref itself, not ctx.isMonthly.value.
weekFill(ev, c) ==
    IF ToBoolean(c.isMonthly) /\ ~ev.isWeekly THEN "transparent" ELSE ev.fill

createWeekCell(ev, c) ==
    createCell(ev, weekSize, c) @@
    [size |-> weekSize, style |-> weekStyle(ev, c), fill |-> weekFill(ev, c)]

(***************************************************************************)
(* The reactive graph: which fields of the cell read which input.          *)
(***************************************************************************)

create(k, ev, c) ==
    IF k = "day" THEN createDayCell(ev, c) ELSE createWeekCell(ev, c)

\* The cell's fields whose getters read the input, directly or through
\* another computed value.
Dependents(k, input) ==
    CASE input = "range" ->
           IF k = "day"
           THEN {"style", "size", "is2xs", "isXs", "isSm", "isMd", "dateLabel"}
           ELSE {"style", "dateLabel"}
      [] input = "pixelsPerHour" ->
           {"style", "size", "is2xs", "isXs", "isSm", "isMd", "dateLabel"}
      [] input = "resizable" ->
           {"resizable", "resizableHorizontal", "resizableVertical"}
      [] input = "isWeekly" ->
           IF k = "day"
           THEN {"isWeekly", "resizableHorizontal", "resizableVertical"}
           ELSE {"isWeekly", "resizableHorizontal", "resizableVertical", "fill"}
      [] input = "fill" -> {"fill"}
      [] input = "isMonthly" -> {"resizableHorizontal", "resizableVertical"}
      [] input = "isDaily" -> {"resizableHorizontal"}

\* What a read of the cell returns after the input changed: the dependent
\* fields are computed again from the new inputs, the others are cached.
Recompute(input, ev, c) ==
    LET fresh == create(kind, ev, c)
    IN  [f \in DOMAIN cell |->
            IF f \in Dependents(kind, input) THEN fresh[f] ELSE cell[f]]

(***************************************************************************)
(* Inputs.                                                                 *)
(***************************************************************************)

DayTimes ==
    {h * MS_PER_HOUR : h \in (0 - HoursBefore)..EarlyHours}
    \cup {h * MS_PER_HOUR : h \in (24 - LateHours)..(24 + HoursAfter)}
    \cup (0..FineTicks)

\* The first and the last tick of each day of a week of n days, of the day
\* before it and of the day after it.
WeekTimes(n) ==
    {d * DayLength + o : d \in (0 - 1)..n, o \in {0, DayLength - 1}}

\* The dates an event of a cell of kind k in context c can start or end on;
\* only a week cell reads a range with a null bound.
Dates(k, c) ==
    IF k = "day"
    THEN {<<t>> : t \in DayTimes}
    ELSE {<<t>> : t \in WeekTimes(Len(c.days))} \cup {<<>>}

\* A DateRange keeps its start no later than its end.
Ordered(start, end) ==
    IF start = <<>> \/ end = <<>> THEN TRUE ELSE start[1] <= end[1]

Ranges(k, c) ==
    {r \in [start : Dates(k, c), end : Dates(k, c)] : Ordered(r.start, r.end)}

Events(k, c) ==
    [range : Ranges(k, c), resizable : BOOLEAN, isWeekly : BOOLEAN,
     fill : FillValues]

Refs(S) == [value : S]

Contexts(k) ==
    IF k = "day"
    THEN [day : {CalendarDay(0)}, pixelsPerHour : Refs(PixelsPerHourValues),
          isMonthly : Refs(BOOLEAN), isDaily : Refs(BOOLEAN)]
    ELSE [days : {[i \in 1..n |-> CalendarDay(i - 1)] : n \in 1..MaxDays},
          isMonthly : Refs(BOOLEAN), isDaily : Refs(BOOLEAN)]

(***************************************************************************)
(* The state machine.                                                      *)
(***************************************************************************)

Init ==
    /\ kind \in {"day", "week"}
    /\ ctx \in Contexts(kind)
    /\ event \in Events(kind, ctx)
    /\ cell = create(kind, event, ctx)

SetStart(d) ==
    /\ d \in Dates(kind, ctx)
    /\ Ordered(d, event.range.end)
    /\ event' = [event EXCEPT !.range.start = d]
    /\ cell' = Recompute("range", event', ctx)
    /\ UNCHANGED <<kind, ctx>>

SetEnd(d) ==
    /\ d \in Dates(kind, ctx)
    /\ Ordered(event.range.start, d)
    /\ event' = [event EXCEPT !.range.end = d]
    /\ cell' = Recompute("range", event', ctx)
    /\ UNCHANGED <<kind, ctx>>

SetResizable ==
    /\ event' = [event EXCEPT !.resizable = ~@]
    /\ cell' = Recompute("resizable", event', ctx)
    /\ UNCHANGED <<kind, ctx>>

SetIsWeekly ==
    /\ event' = [event EXCEPT !.isWeekly = ~@]
    /\ cell' = Recompute("isWeekly", event', ctx)
    /\ UNCHANGED <<kind, ctx>>

SetFill(f) ==
    /\ f \in FillValues
    /\ event' = [event EXCEPT !.fill = f]
    /\ cell' = Recompute("fill", event', ctx)
    /\ UNCHANGED <<kind, ctx>>

SetPixelsPerHour(p) ==
    /\ kind = "day"
    /\ p \in PixelsPerHourValues
    /\ ctx' = [ctx EXCEPT !.pixelsPerHour.value = p]
    /\ cell' = Recompute("pixelsPerHour", event, ctx')
    /\ UNCHANGED <<kind, event>>

SetIsMonthly ==
    /\ ctx' = [ctx EXCEPT !.isMonthly.value = ~@]
    /\ cell' = Recompute("isMonthly", event, ctx')
    /\ UNCHANGED <<kind, event>>

SetIsDaily ==
    /\ ctx' = [ctx EXCEPT !.isDaily.value = ~@]
    /\ cell' = Recompute("isDaily", event, ctx')
    /\ UNCHANGED <<kind, event>>

Next ==
    \/ \E d \in Dates(kind, ctx) : SetStart(d)
    \/ \E d \in Dates(kind, ctx) : SetEnd(d)
    \/ SetResizable
    \/ SetIsWeekly
    \/ \E f \in FillValues : SetFill(f)
    \/ \E p \in PixelsPerHourValues : SetPixelsPerHour(p)
    \/ SetIsMonthly
    \/ SetIsDaily

Spec == Init /\ [][Next]_vars

(***************************************************************************)
(* Properties.                                                             *)
(***************************************************************************)

\* What a day cell's style holds, in units.
CellTop == cell.style.top[1]

CellHeight == cell.style.height[1]

FullHeight == 24 * ctx.pixelsPerHour.value * PX

\* Every field is the one the getters give for the current inputs.
Fresh == cell = create(kind, event, ctx)

\* C1, as stated: a day cell's height is >= 0 and <= 24 * pixelsPerHour -
\* position, for every event range.
C1_HeightWithinRemainder ==
    kind = "day" =>
        /\ CellHeight >= 0
        /\ CellHeight <= FullHeight - CellTop

\* C1, amended: a day cell's height is >= 0 and <= max(0, 24 * pixelsPerHour
\* - position); so the cell ends at or above the bottom of its day whenever
\* its position is no more than 24 * pixelsPerHour, and has height 0 when its
\* position is beyond that.
C1_HeightClamped ==
    kind = "day" =>
        /\ CellHeight >= 0
        /\ CellHeight <= Max(0, FullHeight - CellTop)
        /\ CellTop <= FullHeight => CellTop + CellHeight <= FullHeight
        /\ CellTop > FullHeight => CellHeight = 0

\* An event that starts after the day's 24th hour: position is below the
\* bottom of the day and the height is 0.
C1_Witness ==
    /\ kind = "day"
    /\ event.range.start[1] > 24 * MS_PER_HOUR
    /\ event.range.end[1] > event.range.start[1]
    /\ CellTop > FullHeight
    /\ CellHeight = 0

\* C2: resizableHorizontal is false in daily view, else true in monthly
\* view, else true only for a weekly event; resizableVertical is false in
\* monthly view and for a weekly event, else true; both are false for an
\* event that is not resizable.
C2_Resizability ==
    LET daily == ctx.isDaily.value
        monthly == ctx.isMonthly.value
    IN  /\ ~event.resizable =>
               ~cell.resizableHorizontal /\ ~cell.resizableVertical
        /\ event.resizable =>
               /\ daily => ~cell.resizableHorizontal
               /\ ~daily /\ monthly => cell.resizableHorizontal
               /\ ~daily /\ ~monthly =>
                      (cell.resizableHorizontal <=> event.isWeekly)
               /\ cell.resizableVertical <=> ~monthly /\ ~event.isWeekly

\* A resizable event in a view that is both daily and monthly: neither axis.
C2_Witness ==
    /\ event.resizable
    /\ ctx.isDaily.value
    /\ ctx.isMonthly.value
    /\ ~cell.resizableHorizontal
    /\ ~cell.resizableVertical

\* C3: a day cell's size is '2xs' for a height <= 16, else 'xs' for a height
\* <= 30, else 'sm' for a height <= 48, else 'md'; its position is the
\* multiple of 0.1 nearest to max(0, hours from the day's start to the
\* event's start * pixelsPerHour); pixelsPerHour 10 and an event from hour 2
\* to hour 3 give position 20, height 10 and '2xs'.
C3_SizeBuckets ==
    kind = "day" =>
        LET exact == Max(0, (event.range.start[1] - ctx.day.range.start)
                                * ctx.pixelsPerHour.value * 10)
        IN  /\ cell.size = "2xs" <=> CellHeight <= 16 * PX
            /\ cell.size = "xs" <=> CellHeight > 16 * PX /\ CellHeight <= 30 * PX
            /\ cell.size = "sm" <=> CellHeight > 30 * PX /\ CellHeight <= 48 * PX
            /\ cell.size = "md" <=> CellHeight > 48 * PX
            /\ CellTop % MS_PER_HOUR = 0
            /\ 2 * (exact - CellTop) < MS_PER_HOUR
            /\ 2 * (CellTop - exact) <= MS_PER_HOUR
            /\ (/\ ctx.pixelsPerHour.value = 10
                /\ event.range.start = <<2 * MS_PER_HOUR>>
                /\ event.range.end = <<3 * MS_PER_HOUR>>)
               => CellTop = 20 * PX /\ CellHeight = 10 * PX /\ cell.size = "2xs"

\* The example of C3.
C3_Witness ==
    /\ kind = "day"
    /\ ctx.pixelsPerHour.value = 10
    /\ event.range = [start |-> <<2 * MS_PER_HOUR>>, end |-> <<3 * MS_PER_HOUR>>]
    /\ cell.style = [top |-> <<20 * PX, "px">>, height |-> <<10 * PX, "px">>]
    /\ cell.size = "2xs"

\* The days (1-based) of the week whose range contains the date.
DaysContaining(date) ==
    IF date = <<>>
    THEN {}
    ELSE {i \in 1..Len(ctx.days) :
             /\ ctx.days[i].range.start <= date[1]
             /\ date[1] <= ctx.days[i].range.end}

First(S) == CHOOSE i \in S : \A j \in S : i <= j

\* The event's range and the range from the first day's start to the last
\* day's end have an instant in common.
Overlap ==
    /\ event.range.start = <<>>
       \/ event.range.start[1] <= ctx.days[Len(ctx.days)].range.end
    /\ event.range.end = <<>>
       \/ event.range.end[1] >= ctx.days[1].range.start

\* C4: when the event's range meets the week's, gridColumnStart is the index
\* of the first day containing the event's start (1 if none does) and
\* gridColumnEnd is one past the index of the first day containing the
\* event's end (N + 1 if none does); an event over all 7 days of a 7-day
\* week gets 1 and 8.
C4_GridColumns ==
    (kind = "week" /\ Overlap) =>
        LET S == DaysContaining(event.range.start)
            E == DaysContaining(event.range.end)
            N == Len(ctx.days)
        IN  /\ cell.style.gridColumnStart = IF S = {} THEN 1 ELSE First(S)
            /\ cell.style.gridColumnEnd = IF E = {} THEN N + 1 ELSE First(E) + 1
            /\ (N = 7 /\ 1 \in S /\ 7 \in E) =>
                   cell.style = [gridColumnStart |-> 1, gridColumnEnd |-> 8]

\* An event from the first tick to the last tick of a 7-day week.
C4_Witness ==
    /\ kind = "week"
    /\ Len(ctx.days) = 7
    /\ event.range = [start |-> <<0>>, end |-> <<7 * DayLength - 1>>]
    /\ cell.style = [gridColumnStart |-> 1, gridColumnEnd |-> 8]

\* C5: a week cell's style is empty exactly when the event's range does not
\* meet the range from the first day's start to the last day's end, and
\* holds gridColumnStart and gridColumnEnd otherwise.
C5_StyleIffOverlap ==
    kind = "week" =>
        /\ DOMAIN cell.style = {} <=> ~Overlap
        /\ Overlap => DOMAIN cell.style = {"gridColumnStart", "gridColumnEnd"}

\* An event that starts after the last day of the week: no style.
C5_Witness ==
    /\ kind = "week"
    /\ Len(ctx.days) > 1
    /\ event.range.start # <<>>
    /\ event.range.start[1] > ctx.days[Len(ctx.days)].range.end
    /\ DOMAIN cell.style = {}

\* C6: for every size, is2xs implies isXs, isXs implies isSm and isSm implies
\* isMd, so that a '2xs' cell satisfies all four.
C6_SizeLadder ==
    /\ cell.is2xs => cell.isXs
    /\ cell.isXs => cell.isSm
    /\ cell.isSm => cell.isMd
    /\ cell.size = "2xs" => cell.is2xs /\ cell.isXs /\ cell.isSm /\ cell.isMd

\* A '2xs' day cell of some height: all four predicates.
C6_Witness ==
    /\ kind = "day"
    /\ CellHeight > 0
    /\ cell.size = "2xs"
    /\ cell.is2xs /\ cell.isXs /\ cell.isSm /\ cell.isMd

\* C7: a week cell's fill is 'transparent' when the view is monthly and the
\* event is not weekly, and the event's fill otherwise.
C7_WeekFill ==
    kind = "week" =>
        cell.fill = IF ctx.isMonthly.value /\ ~event.isWeekly
                    THEN "transparent"
                    ELSE event.fill

RangeLabel == startDateLabel(event) \o " - " \o endDateLabel(event)

\* C8, as stated: the date label is the start label alone only for the size
\* '2xs', and the range string for 'xs', 'sm' and 'md'.
C8_StartLabelOnlyAt2xs ==
    /\ cell.size = "2xs" => cell.dateLabel = startDateLabel(event)
    /\ cell.size \in {"xs", "sm", "md"} => cell.dateLabel = RangeLabel

\* C8, amended: the date label is the start label alone for the sizes '2xs'
\* and 'xs', and the range string for 'sm' and 'md'.
C8_StartLabelUpToXs ==
    /\ cell.size \in {"2xs", "xs"} => cell.dateLabel = startDateLabel(event)
    /\ cell.size \in {"sm", "md"} => cell.dateLabel = RangeLabel

\* An 'xs' day cell whose label is the start label alone.
C8_Witness ==
    /\ kind = "day"
    /\ cell.size = "xs"
    /\ cell.dateLabel = startDateLabel(event)
    /\ cell.dateLabel # RangeLabel

\* The derivation rules for inputs ev and c: those of the getters, with the
\* week cell's fill as C7 states it.
Derived(k, ev, c) ==
    IF k = "day"
    THEN createDayCell(ev, c)
    ELSE [createWeekCell(ev, c) EXCEPT
             !.fill = IF c.isMonthly.value /\ ~ev.isWeekly
                      THEN "transparent"
                      ELSE ev.fill]

\* C9: after every change of an input, every field read from the cell is the
\* one the derivation rules give for the inputs as they are now.
C9_DerivedFieldsCurrent == [][cell' = Derived(kind', event', ctx')]_vars

\* C10: whenever a week cell of N days has a style,
\* 1 <= gridColumnStart < gridColumnEnd <= N + 1.
C10_ColumnsWithinGrid ==
    (kind = "week" /\ DOMAIN cell.style # {}) =>
        /\ 1 <= cell.style.gridColumnStart
        /\ cell.style.gridColumnStart < cell.style.gridColumnEnd
        /\ cell.style.gridColumnEnd <= Len(ctx.days) + 1

\* An event inside the last day of a week: one column, the last.
C10_Witness ==
    /\ kind = "week"
    /\ Len(ctx.days) > 1
    /\ event.range.start # <<>>
    /\ event.range.end # <<>>
    /\ cell.style = [gridColumnStart |-> Len(ctx.days),
                     gridColumnEnd |-> Len(ctx.days) + 1]

====
